---------------------------- MODULE Spec2Model ----------------------------
(***************************************************************************)
(* HTTP/1 response encoding of actix-http-alt: the connection Context, the *)
(* head encoder (Context::encode_head) and the TransferEncoding state      *)
(* machine (encode / encode_eof), over both modes of the write buffer.     *)
(*                                                                         *)
(* A byte is a one-character string, a byte string a sequence of them.     *)
(* "<FF>" stands for a byte outside visible ASCII.  An Option is a         *)
(* sequence of length 0 (None) or 1 (Some).                                *)
(***************************************************************************)
EXTENDS Integers, Sequences, FiniteSets, TLC

VARIABLES
    ctype,          \* Context.ctype
    state,          \* Context.state: the ContextState bits
    header_cache,   \* Context.header_cache
    date,           \* the value held by the shared Date cache (Context.date)
    buf,            \* the WriteBuf handed to the encoders
    enc,            \* the TransferEncoding of the response body in flight
    op,             \* history: the last operation called
    arg,            \* history: its input
    pre,            \* history: the state it was called in
    out,            \* history: the bytes it wrote
    ret,            \* history: what it returned
    body,           \* history: the ResponseBody enc was made for
    bmark,          \* history: bytes waiting in buf when enc was made
    offered,        \* history: the chunks offered to enc since it was made
    eofs,           \* history: encode_eof calls on enc since it was made
    calls,          \* history: number of encoder calls so far
    encode_stream,  \* the EncodeStream of a websocket: its buf and rx
    channel,        \* the mpsc channel behind rx: queued messages, senders
    decode_stream,  \* the DecodeStream of a websocket: its stream and buf
    inner,          \* the stream S inside DecodeStream: what it has yet to give
    hist            \* history of the websocket streams

\* the variables of the websocket streams (stream.rs)
WsVars == <<encode_stream, channel, decode_stream, inner, hist>>

vars == <<ctype, state, header_cache, date, buf, enc, op, arg, pre, out, ret,
          body, bmark, offered, eofs, calls, WsVars>>

-----------------------------------------------------------------------------
(* Bounds of the model *)

\* encoder calls in one behaviour of SpecBody
MaxCalls == 3
\* largest Bytes body
MaxLen == 3
\* the connection goes on to its next operation while at most this many bytes
\* wait in the write buffer, and flushes first otherwise
MaxPending == 17
\* messages sent into the channel of an EncodeStream in one behaviour
MaxSent == 3
\* times poll_recv gives Pending on a spurious failure in one behaviour
MaxSpurious == 1
\* items the stream inside a DecodeStream gives before it ends
MaxScript == 3

-----------------------------------------------------------------------------
(* Byte strings *)

None == <<>>
Some(x) == <<x>>

CRLF == <<"\r", "\n">>

RECURSIVE Concat(_)
Concat(ss) == IF ss = <<>> THEN <<>> ELSE Head(ss) \o Concat(Tail(ss))

Rep(n, c) == [i \in 1..n |-> c]

Min(a, b) == IF a < b THEN a ELSE b

Digits == <<"0", "1", "2", "3", "4", "5", "6", "7", "8", "9", "A", "B", "C", "D", "E", "F">>

\* format!("{:X}", n)
RECURSIVE UpperHex(_)
UpperHex(n) == IF n < 16 THEN <<Digits[n + 1]>>
               ELSE UpperHex(n \div 16) \o <<Digits[(n % 16) + 1]>>

\* itoa::Buffer::format(n)
RECURSIVE Itoa(_)
Itoa(n) == IF n < 10 THEN <<Digits[n + 1]>>
           ELSE Itoa(n \div 10) \o <<Digits[(n % 10) + 1]>>

-----------------------------------------------------------------------------
(* WriteBuf: Flat(BytesMut), or List with a scratch BytesMut and a list of   *)
(* fragments                                                                 *)

Flat(bytes) == [mode |-> "Flat", bytes |-> bytes]
List(scratch, list) == [mode |-> "List", buf |-> scratch, list |-> list]

\* BytesMut::put_slice
put_slice(bytes, s) == bytes \o s

\* WriteListBuf::buffer: queue one fragment
buffer(wb, frag) == List(wb.buf, Append(wb.list, frag))

\* the bytes waiting in the write buffer, in the order they will be sent
Content(wb) == IF wb.mode = "Flat" THEN wb.bytes ELSE Concat(wb.list)

-----------------------------------------------------------------------------
(* Context (context.rs) *)

Init_ == "Init"
Close == "Close"
KeepAlive == "KeepAlive"
Upgrade == "Upgrade"
ConnectionType == {Init_, Close, KeepAlive, Upgrade}

EXPECT == 1
CONNECT == 2
FORCE_CLOSE == 4

\* ContextState::new
ContextState_new == 0

\* ContextState::contains, for the one-bit masks above
contains(s, other) == (s \div other) % 2 = 1

\* ContextState::insert as an assignment: self.0 = other.0
insert_overwrite(s, other) == other

\* ContextState::insert: self.0 |= other.0
insert(s, other) == IF contains(s, other) THEN s ELSE s + other

is_expect_header(s) == contains(s, EXPECT)
is_connect_method(s) == contains(s, CONNECT)
is_force_close(s) == contains(s, FORCE_CLOSE)

\* Context::reset that leaves the flags as they are
reset_keeps_flags(ctx) == [ctx EXCEPT !.ctype = KeepAlive]

\* Context::reset that goes back to the disposition of a new Context
reset_to_init(ctx) == [ctx EXCEPT !.ctype = Init_, !.state = ContextState_new]

\* Context::reset on ctx = [state, ctype, header_cache, date]
reset(ctx) == [ctx EXCEPT !.ctype = KeepAlive, !.state = ContextState_new]

-----------------------------------------------------------------------------
(* TransferEncoding (encode.rs) *)

eof == [kind |-> "Eof", remaining |-> 0, eof |-> FALSE]
chunked == [kind |-> "EncodeChunked", remaining |-> 0, eof |-> FALSE]
plain_chunked == [kind |-> "PlainChunked", remaining |-> 0, eof |-> FALSE]
length(len) == [kind |-> "Length", remaining |-> len, eof |-> FALSE]

\* ResponseBody: None, Bytes of a length, Stream
BodyNone == [kind |-> "None", len |-> 0]
BodyBytes(n) == [kind |-> "Bytes", len |-> n]
BodyStream == [kind |-> "Stream", len |-> 0]

\* ResponseBody::encoder that does not look at the disposition
encoder_ignores_ctype(b, ct) ==
    CASE b.kind = "None" -> eof
      [] b.kind = "Bytes" -> length(b.len)
      [] b.kind = "Stream" -> chunked

\* ResponseBody::encoder
encoder(b, ct) ==
    CASE b.kind = "None" -> eof
      [] b.kind = "Bytes" -> length(b.len)
      [] b.kind = "Stream" ->
            IF ct = Upgrade THEN plain_chunked ELSE chunked

\* encode_chunked with the CRLF after the chunk data left out
encode_chunked_no_crlf(e, msg, wb) ==
    IF e.eof THEN [enc |-> e, buf |-> wb, ret |-> "Ok(true)"]
    ELSE IF msg = <<>> THEN
        [enc |-> [e EXCEPT !.eof = TRUE],
         buf |-> IF wb.mode = "Flat"
                 THEN Flat(put_slice(wb.bytes, <<"0", "\r", "\n", "\r", "\n">>))
                 ELSE buffer(wb, <<"0", "\r", "\n", "\r", "\n">>),
         ret |-> "Ok(true)"]
    ELSE
        [enc |-> e,
         buf |-> IF wb.mode = "Flat"
                 THEN Flat(put_slice(put_slice(wb.bytes, UpperHex(Len(msg)) \o CRLF), msg))
                 ELSE buffer(buffer(wb, UpperHex(Len(msg)) \o CRLF), msg),
         ret |-> "Ok(false)"]

\* the Kind::EncodeChunked arm of TransferEncoding::encode
encode_chunked(e, msg, wb) ==
    IF e.eof THEN [enc |-> e, buf |-> wb, ret |-> "Ok(true)"]
    ELSE IF wb.mode = "List" THEN
        IF msg = <<>> THEN
            [enc |-> [e EXCEPT !.eof = TRUE],
             buf |-> buffer(wb, <<"0", "\r", "\n", "\r", "\n">>),
             ret |-> "Ok(true)"]
        ELSE
            [enc |-> e,
             buf |-> buffer(buffer(buffer(wb, UpperHex(Len(msg)) \o CRLF), msg), CRLF),
             ret |-> "Ok(false)"]
    ELSE
        IF msg = <<>> THEN
            [enc |-> [e EXCEPT !.eof = TRUE],
             buf |-> Flat(put_slice(wb.bytes, <<"0", "\r", "\n", "\r", "\n">>)),
             ret |-> "Ok(true)"]
        ELSE
            [enc |-> e,
             buf |-> Flat(put_slice(put_slice(put_slice(wb.bytes,
                            UpperHex(Len(msg)) \o <<"\r">> \o <<"\n">>), msg), CRLF)),
             ret |-> "Ok(false)"]

\* encode_length writing the whole chunk: len is not clamped to remaining
encode_length_unclamped(e, msg, wb) ==
    IF e.remaining > 0 THEN
        IF msg = <<>> THEN [enc |-> e, buf |-> wb, ret |-> "Ok(false)"]
        ELSE
            LET rem == e.remaining - Min(e.remaining, Len(msg))
            IN  [enc |-> [e EXCEPT !.remaining = rem],
                 buf |-> IF wb.mode = "Flat" THEN Flat(put_slice(wb.bytes, msg))
                         ELSE buffer(wb, msg),
                 ret |-> IF rem = 0 THEN "Ok(true)" ELSE "Ok(false)"]
    ELSE [enc |-> e, buf |-> wb, ret |-> "Ok(true)"]

\* the Kind::Length arm of TransferEncoding::encode
encode_length(e, msg, wb) ==
    IF e.remaining > 0 THEN
        IF msg = <<>> THEN
            [enc |-> e, buf |-> wb,
             ret |-> IF e.remaining = 0 THEN "Ok(true)" ELSE "Ok(false)"]
        ELSE
            LET len == Min(e.remaining, Len(msg))
                part == SubSeq(msg, 1, len)
                rem == e.remaining - len
            IN  [enc |-> [e EXCEPT !.remaining = rem],
                 buf |-> IF wb.mode = "Flat" THEN Flat(put_slice(wb.bytes, part))
                         ELSE buffer(wb, part),
                 ret |-> IF rem = 0 THEN "Ok(true)" ELSE "Ok(false)"]
    ELSE [enc |-> e, buf |-> wb, ret |-> "Ok(true)"]

\* TransferEncoding::encode with PlainChunked framed like EncodeChunked
encode_plain_as_chunked(e, msg, wb) ==
    CASE e.kind = "Eof" ->
            [enc |-> e,
             buf |-> IF wb.mode = "Flat" THEN Flat(put_slice(wb.bytes, msg))
                     ELSE buffer(wb, msg),
             ret |-> IF msg = <<>> THEN "Ok(true)" ELSE "Ok(false)"]
      [] e.kind \in {"EncodeChunked", "PlainChunked"} -> encode_chunked(e, msg, wb)
      [] e.kind = "Length" -> encode_length(e, msg, wb)

\* TransferEncoding::encode
encode(e, msg, wb) ==
    CASE e.kind \in {"Eof", "PlainChunked"} ->
            [enc |-> e,
             buf |-> IF wb.mode = "Flat" THEN Flat(put_slice(wb.bytes, msg))
                     ELSE buffer(wb, msg),
             ret |-> IF msg = <<>> THEN "Ok(true)" ELSE "Ok(false)"]
      [] e.kind = "EncodeChunked" -> encode_chunked(e, msg, wb)
      [] e.kind = "Length" -> encode_length(e, msg, wb)

\* encode_eof that does not look at remaining
encode_eof_lenient(e, wb) ==
    IF e.kind = "EncodeChunked" /\ ~e.eof
    THEN [enc |-> [e EXCEPT !.eof = TRUE],
          buf |-> IF wb.mode = "Flat"
                  THEN Flat(put_slice(wb.bytes, <<"0", "\r", "\n", "\r", "\n">>))
                  ELSE buffer(wb, <<"0", "\r", "\n", "\r", "\n">>),
          ret |-> "Ok(())"]
    ELSE [enc |-> e, buf |-> wb, ret |-> "Ok(())"]

\* encode_eof that does not look at the finished flag
encode_eof_again(e, wb) ==
    CASE e.kind \in {"Eof", "PlainChunked"} -> [enc |-> e, buf |-> wb, ret |-> "Ok(())"]
      [] e.kind = "Length" ->
            IF e.remaining # 0
            THEN [enc |-> e, buf |-> wb, ret |-> "Err(UnexpectedEof)"]
            ELSE [enc |-> e, buf |-> wb, ret |-> "Ok(())"]
      [] e.kind = "EncodeChunked" ->
            [enc |-> [e EXCEPT !.eof = TRUE],
             buf |-> IF wb.mode = "Flat"
                     THEN Flat(put_slice(wb.bytes, <<"0", "\r", "\n", "\r", "\n">>))
                     ELSE buffer(wb, <<"0", "\r", "\n", "\r", "\n">>),
             ret |-> "Ok(())"]

\* TransferEncoding::encode_eof
encode_eof(e, wb) ==
    CASE e.kind \in {"Eof", "PlainChunked"} -> [enc |-> e, buf |-> wb, ret |-> "Ok(())"]
      [] e.kind = "Length" ->
            IF e.remaining # 0
            THEN [enc |-> e, buf |-> wb, ret |-> "Err(UnexpectedEof)"]
            ELSE [enc |-> e, buf |-> wb, ret |-> "Ok(())"]
      [] e.kind = "EncodeChunked" ->
            IF ~e.eof
            THEN [enc |-> [e EXCEPT !.eof = TRUE],
                  buf |-> IF wb.mode = "Flat"
                          THEN Flat(put_slice(wb.bytes, <<"0", "\r", "\n", "\r", "\n">>))
                          ELSE buffer(wb, <<"0", "\r", "\n", "\r", "\n">>),
                  ret |-> "Ok(())"]
            ELSE [enc |-> e, buf |-> wb, ret |-> "Ok(())"]

-----------------------------------------------------------------------------
(* Response parts (http crate) *)

HTTP_10 == "HTTP/1.0"
HTTP_11 == "HTTP/1.1"
HTTP_2 == "HTTP/2.0"

SWITCHING_PROTOCOLS == 101
OK == 200

\* StatusCode::is_informational, StatusCode::is_success
is_informational(s) == 100 <= s /\ s < 200
is_success(s) == 200 <= s /\ s < 300

\* StatusCode::canonical_reason, for the status codes of the model
canonical_reason(s) ==
    CASE s = 100 -> Some(<<"C", "o", "n", "t", "i", "n", "u", "e">>)
      [] s = 101 -> Some(<<"S", "w", "i", "t", "c", "h", "i", "n", "g", " ",
                           "P", "r", "o", "t", "o", "c", "o", "l", "s">>)
      [] s = 200 -> Some(<<"O", "K">>)
      [] s = 204 -> Some(<<"N", "o", " ", "C", "o", "n", "t", "e", "n", "t">>)
      [] s = 404 -> Some(<<"N", "o", "t", " ", "F", "o", "u", "n", "d">>)
      [] OTHER -> None

\* Option::unwrap_or
unwrap_or(o, d) == IF o = None THEN d ELSE o[1]

\* header names: HeaderName::as_str is lower case
CONNECTION == <<"c", "o", "n", "n", "e", "c", "t", "i", "o", "n">>
CONTENT_LENGTH == <<"c", "o", "n", "t", "e", "n", "t", "-", "l", "e", "n", "g", "t", "h">>
TRANSFER_ENCODING == <<"t", "r", "a", "n", "s", "f", "e", "r", "-",
                       "e", "n", "c", "o", "d", "i", "n", "g">>
DATE == <<"d", "a", "t", "e">>

\* ResponseBodySize
SizeNone == [kind |-> "None", size |-> 0]
SizeStream == [kind |-> "Stream", size |-> 0]
Sized(n) == [kind |-> "Sized", size |-> n]

UpperCase == <<"A", "B", "C", "D", "E", "F", "G", "H", "I", "J", "K", "L", "M",
               "N", "O", "P", "Q", "R", "S", "T", "U", "V", "W", "X", "Y", "Z">>
LowerCase == <<"a", "b", "c", "d", "e", "f", "g", "h", "i", "j", "k", "l", "m",
               "n", "o", "p", "q", "r", "s", "t", "u", "v", "w", "x", "y", "z">>

\* u8::to_ascii_lowercase
to_ascii_lowercase(c) ==
    IF \E i \in 1..26 : UpperCase[i] = c
    THEN LowerCase[CHOOSE i \in 1..26 : UpperCase[i] = c]
    ELSE c

\* str::eq_ignore_ascii_case
eq_ignore_ascii_case(a, b) ==
    /\ Len(a) = Len(b)
    /\ \A i \in 1..Len(a) : to_ascii_lowercase(a[i]) = to_ascii_lowercase(b[i])

WhiteSpace == {" ", "\t", "\n", "\r"}

\* str::trim
trim(v) ==
    LET keep == {i \in 1..Len(v) : v[i] \notin WhiteSpace}
    IN  IF keep = {} THEN <<>>
        ELSE SubSeq(v, CHOOSE i \in keep : \A j \in keep : i <= j,
                       CHOOSE i \in keep : \A j \in keep : j <= i)

\* str::split(','), as the sequence of its items
split(v) ==
    LET commas == {i \in 1..Len(v) : v[i] = ","}
        n == Cardinality(commas)
        at(k) == IF k = 0 THEN 0
                 ELSE IF k = n + 1 THEN Len(v) + 1
                 ELSE CHOOSE p \in commas : Cardinality({q \in commas : q < p}) = k - 1
    IN  [k \in 1..(n + 1) |-> SubSeq(v, at(k - 1) + 1, at(k) - 1)]

\* HeaderValue::to_str succeeds on visible ASCII only
to_str_ok(v) == \A i \in 1..Len(v) : v[i] # "<FF>"

-----------------------------------------------------------------------------
(* The head encoder (encode.rs) *)

Continue100 == <<"H", "T", "T", "P", "/", "1", ".", "1", " ", "1", "0", "0", " ",
                 "C", "o", "n", "t", "i", "n", "u", "e", "\r", "\n", "\r", "\n">>

\* Context::encode_continue; dbg: the build has debug assertions
encode_continue(st, dbg, wb) ==
    IF dbg /\ ~is_expect_header(st) THEN [buf |-> wb, ret |-> "Panic"]
    ELSE [buf |-> IF wb.mode = "Flat" THEN Flat(put_slice(wb.bytes, Continue100))
                  ELSE buffer(wb, Continue100),
          ret |-> "()"]

\* encode_version_status_reason writing the token of the version it is given
encode_version_status_reason_as_given(bytes, version, status) ==
    IF version = HTTP_11 /\ status = OK
    THEN put_slice(bytes, <<"H", "T", "T", "P", "/", "1", ".", "1", " ", "2", "0", "0", " ", "O", "K", "\r", "\n">>)
    ELSE LET b1 == IF version = HTTP_10
                   THEN put_slice(bytes, <<"H", "T", "T", "P", "/", "1", ".", "0", " ">>)
                   ELSE IF version = HTTP_11
                   THEN put_slice(bytes, <<"H", "T", "T", "P", "/", "1", ".", "1", " ">>)
                   ELSE put_slice(bytes, <<"H", "T", "T", "P", "/", "2", ".", "0", " ">>)
             b2 == put_slice(b1, Itoa(status))
             b3 == put_slice(b2, <<" ">>)
             b4 == put_slice(b3, unwrap_or(canonical_reason(status),
                                           <<"<", "n", "o", "n", "e", ">">>))
         IN  put_slice(b4, CRLF)

\* encode_version_status_reason
encode_version_status_reason(bytes, version, status) ==
    IF version = HTTP_11 /\ status = OK
    THEN put_slice(bytes, <<"H", "T", "T", "P", "/", "1", ".", "1", " ",
                            "2", "0", "0", " ", "O", "K", "\r", "\n">>)
    ELSE LET b1 == IF version = HTTP_10
                   THEN put_slice(bytes, <<"H", "T", "T", "P", "/", "1", ".", "0", " ">>)
                   ELSE put_slice(bytes, <<"H", "T", "T", "P", "/", "1", ".", "1", " ">>)
             b2 == put_slice(b1, Itoa(status))
             b3 == put_slice(b2, <<" ">>)
             b4 == put_slice(b3, unwrap_or(canonical_reason(status),
                                           <<"<", "n", "o", "n", "e", ">">>))
         IN  put_slice(b4, CRLF)

\* the skip_len match of encode_head_inner (lines 61-71) without the arm
\* that tells a 2xx status from the others on a CONNECT request
skip_len_match_any_connect(st, status) ==
    IF status = SWITCHING_PROTOCOLS THEN [err |-> FALSE, skip_len |-> FALSE]
    ELSE IF is_connect_method(st) THEN [err |-> FALSE, skip_len |-> TRUE]
    ELSE IF is_informational(status) THEN [err |-> TRUE, skip_len |-> FALSE]
    ELSE [err |-> FALSE, skip_len |-> FALSE]

\* the skip_len match of encode_head_inner (lines 61-71)
skip_len_match(st, status) ==
    IF status = SWITCHING_PROTOCOLS THEN [err |-> FALSE, skip_len |-> FALSE]
    ELSE IF is_connect_method(st) /\ is_success(status)
    THEN [err |-> FALSE, skip_len |-> TRUE]
    ELSE IF is_informational(status) THEN [err |-> TRUE, skip_len |-> FALSE]
    ELSE [err |-> FALSE, skip_len |-> FALSE]

\* the token scan with a break after the first matching token
RECURSIVE scan_connection_first(_, _)
scan_connection_first(tokens, ct) ==
    IF tokens = <<>> THEN ct
    ELSE LET val == trim(Head(tokens))
         IN  IF eq_ignore_ascii_case(val, <<"c", "l", "o", "s", "e">>) THEN Close
             ELSE IF eq_ignore_ascii_case(val, <<"k", "e", "e", "p", "-", "a", "l", "i", "v", "e">>)
             THEN KeepAlive
             ELSE IF eq_ignore_ascii_case(val, <<"u", "p", "g", "r", "a", "d", "e">>)
             THEN Upgrade
             ELSE scan_connection_first(Tail(tokens), ct)

\* the token loop over a Connection value (lines 98-108): each matching
\* token calls set_ctype
RECURSIVE scan_connection(_, _)
scan_connection(tokens, ct) ==
    IF tokens = <<>> THEN ct
    ELSE LET val == trim(Head(tokens))
         IN  scan_connection(Tail(tokens),
                IF eq_ignore_ascii_case(val, <<"c", "l", "o", "s", "e">>) THEN Close
                ELSE IF eq_ignore_ascii_case(val, <<"k", "e", "e", "p", "-", "a", "l", "i", "v", "e">>)
                THEN KeepAlive
                ELSE IF eq_ignore_ascii_case(val, <<"u", "p", "g", "r", "a", "d", "e">>)
                THEN Upgrade
                ELSE ct)

\* lines 114-117: one header line
put_header(bytes, name, value) ==
    put_slice(put_slice(put_slice(put_slice(bytes, name), <<":", " ">>), value), CRLF)

\* the loop body without the force-close arm for CONNECTION
header_step_keeps_connection(h, st, dbg, s) ==
    IF h.name = None THEN [s EXCEPT !.res = "Panic"]
    ELSE LET name == h.name[1]
         IN  IF name \in {CONTENT_LENGTH, TRANSFER_ENCODING}
             THEN IF dbg /\ s.skip_len THEN [s EXCEPT !.res = "Panic"]
                  ELSE [s EXCEPT !.skip_len = TRUE,
                                 !.buf = put_header(@, name, h.value)]
             ELSE IF name = CONNECTION
             THEN IF ~to_str_ok(h.value) THEN [s EXCEPT !.res = "Err(HeaderValue)"]
                  ELSE [s EXCEPT !.ctype = scan_connection(split(h.value), @),
                                 !.buf = put_header(@, name, h.value)]
             ELSE IF name = DATE
             THEN [s EXCEPT !.skip_date = TRUE, !.buf = put_header(@, name, h.value)]
             ELSE [s EXCEPT !.buf = put_header(@, name, h.value)]

\* the loop body reading the tokens of a Connection header that force-close
\* drops
header_step_scans_dropped(h, st, dbg, s) ==
    IF h.name = None THEN [s EXCEPT !.res = "Panic"]
    ELSE LET name == h.name[1]
         IN  IF name \in {CONTENT_LENGTH, TRANSFER_ENCODING}
             THEN IF dbg /\ s.skip_len THEN [s EXCEPT !.res = "Panic"]
                  ELSE [s EXCEPT !.skip_len = TRUE,
                                 !.buf = put_header(@, name, h.value)]
             ELSE IF name = CONNECTION /\ is_force_close(st)
             THEN IF ~to_str_ok(h.value) THEN s
                  ELSE [s EXCEPT !.ctype = scan_connection(split(h.value), @)]
             ELSE IF name = CONNECTION
             THEN IF ~to_str_ok(h.value) THEN [s EXCEPT !.res = "Err(HeaderValue)"]
                  ELSE [s EXCEPT !.ctype = scan_connection(split(h.value), @),
                                 !.buf = put_header(@, name, h.value)]
             ELSE IF name = DATE
             THEN [s EXCEPT !.skip_date = TRUE, !.buf = put_header(@, name, h.value)]
             ELSE [s EXCEPT !.buf = put_header(@, name, h.value)]

\* the body of the loop over parts.headers.drain() (lines 84-117), on the
\* loop state s = [buf, skip_len, skip_date, ctype, res]
header_step(h, st, dbg, s) ==
    IF h.name = None THEN [s EXCEPT !.res = "Panic"]
    ELSE LET name == h.name[1]
         IN  IF name \in {CONTENT_LENGTH, TRANSFER_ENCODING}
             THEN IF dbg /\ s.skip_len THEN [s EXCEPT !.res = "Panic"]
                  ELSE [s EXCEPT !.skip_len = TRUE,
                                 !.buf = put_header(@, name, h.value)]
             ELSE IF name = CONNECTION /\ is_force_close(st) THEN s
             ELSE IF name = CONNECTION
             THEN IF ~to_str_ok(h.value) THEN [s EXCEPT !.res = "Err(HeaderValue)"]
                  ELSE [s EXCEPT !.ctype = scan_connection(split(h.value), @),
                                 !.buf = put_header(@, name, h.value)]
             ELSE IF name = DATE
             THEN [s EXCEPT !.skip_date = TRUE, !.buf = put_header(@, name, h.value)]
             ELSE [s EXCEPT !.buf = put_header(@, name, h.value)]

\* the loop taking the items of drain() from the last to the first
RECURSIVE drain_reversed(_, _, _, _)
drain_reversed(hs, st, dbg, s) ==
    IF hs = <<>> \/ s.res # "Run" THEN s
    ELSE drain_reversed(SubSeq(hs, 1, Len(hs) - 1), st, dbg,
                        header_step(hs[Len(hs)], st, dbg, s))

\* for (name, value) in parts.headers.drain()
RECURSIVE drain(_, _, _, _)
drain(hs, st, dbg, s) ==
    IF hs = <<>> \/ s.res # "Run" THEN s
    ELSE drain(Tail(hs), st, dbg, header_step(Head(hs), st, dbg, s))

\* lines 124-136: transfer-encoding or content-length
put_length(bytes, skip_len, size) ==
    IF skip_len \/ size.kind = "None" THEN bytes
    ELSE IF size.kind = "Stream"
    THEN put_slice(bytes, <<"t", "r", "a", "n", "s", "f", "e", "r", "-", "e", "n", "c", "o",
                            "d", "i", "n", "g", ":", " ", "c", "h", "u", "n", "k", "e", "d",
                            "\r", "\n">>)
    ELSE put_slice(put_slice(put_slice(bytes,
            <<"c", "o", "n", "t", "e", "n", "t", "-", "l", "e", "n", "g", "t", "h", ":", " ">>),
            Itoa(size.size)), CRLF)

\* the end of the head with the date line written whatever skip_date is
put_date_always(bytes, skip_date, dt) ==
    put_slice(put_slice(put_slice(bytes, <<"d", "a", "t", "e", ":", " ">>), dt),
              <<"\r", "\n", "\r", "\n">>)

\* lines 138-146: the date line and the end of the head
put_date(bytes, skip_date, dt) ==
    IF ~skip_date
    THEN put_slice(put_slice(put_slice(bytes, <<"d", "a", "t", "e", ":", " ">>), dt),
                   <<"\r", "\n", "\r", "\n">>)
    ELSE put_slice(bytes, CRLF)

\* Context::encode_head_inner on ctx = [state, ctype, header_cache, date]
\* and the BytesMut bytes; the result's buf is the BytesMut after the call
encode_head_inner(ctx, parts, size, dbg, bytes) ==
    LET m == skip_len_match(ctx.state, parts.status)
    IN  IF m.err THEN [res |-> "Err(StatusCode)", buf |-> bytes, ctx |-> ctx]
        ELSE
        LET s0 == [buf |-> encode_version_status_reason(bytes, parts.version, parts.status),
                   skip_len |-> m.skip_len, skip_date |-> FALSE,
                   ctype |-> ctx.ctype, res |-> "Run"]
            s1 == drain(parts.headers, ctx.state, dbg, s0)
            b1 == IF is_force_close(ctx.state)
                  THEN put_slice(s1.buf, <<"c", "o", "n", "n", "e", "c", "t", "i", "o", "n",
                                 ":", " ", "c", "l", "o", "s", "e", "\r", "\n">>)
                  ELSE s1.buf
            b2 == put_length(b1, s1.skip_len, size)
            b3 == put_date(b2, s1.skip_date, ctx.date)
        IN  IF s1.res # "Run"
            THEN [res |-> s1.res, buf |-> s1.buf, ctx |-> [ctx EXCEPT !.ctype = s1.ctype]]
            ELSE [res |-> "Ok(())", buf |-> b3,
                  ctx |-> [ctx EXCEPT !.ctype = s1.ctype, !.header_cache = Some(<<>>)]]

\* Context::encode_head; out is what encode_head_inner wrote
encode_head(ctx, parts, size, dbg, wb) ==
    IF wb.mode = "List"
    THEN LET r == encode_head_inner(ctx, parts, size, dbg, wb.buf)
         IN  [ret |-> r.res, ctx |-> r.ctx,
              out |-> SubSeq(r.buf, Len(wb.buf) + 1, Len(r.buf)),
              buf |-> IF r.res = "Ok(())"
                      THEN List(<<>>, Append(wb.list, r.buf))
                      ELSE List(r.buf, wb.list)]
    ELSE LET r == encode_head_inner(ctx, parts, size, dbg, wb.bytes)
         IN  [ret |-> r.res, ctx |-> r.ctx,
              out |-> SubSeq(r.buf, Len(wb.bytes) + 1, Len(r.buf)),
              buf |-> Flat(r.buf)]

-----------------------------------------------------------------------------
(* The websocket streams (http-ws stream.rs) *)

\* the frame of a message on the wire: a frame byte, then the message
WsFrame(msg) == <<"F", msg>>

\* Codec::encode: the frame of msg appended to dst; the message "!" is one
\* the codec refuses
Codec_encode(msg, dst) ==
    IF msg = "!" THEN [err |-> TRUE, buf |-> dst]
    ELSE [err |-> FALSE, buf |-> dst \o WsFrame(msg)]

\* Codec::decode: the first message of src if src holds a complete frame,
\* taken out of src; None on an incomplete frame; an error on a byte that
\* starts no frame
Codec_decode(src) ==
    IF src = <<>> THEN [err |-> FALSE, msg |-> None, buf |-> src]
    ELSE IF src[1] # "F" THEN [err |-> TRUE, msg |-> None, buf |-> src]
    ELSE IF Len(src) < 2 THEN [err |-> FALSE, msg |-> None, buf |-> src]
    ELSE [err |-> FALSE, msg |-> Some(src[2]), buf |-> SubSeq(src, 3, Len(src))]

\* EncodeStream::with_capacity: the stream, and the channel with its Sender
EncodeStream_new == [buf |-> <<>>, rx |-> Some("rx")]
channel_new == [queue |-> <<>>, senders |-> 1]

\* DecodeStream::with_codec
DecodeStream_new == [stream |-> Some("S"), buf |-> <<>>]

\* Receiver::poll_recv: the next queued message, None once every sender is
\* gone and the queue is empty, Pending otherwise or on a spurious failure
poll_recv(ch, spurious) ==
    IF spurious THEN [res |-> "Pending", msg |-> None, ch |-> ch]
    ELSE IF ch.queue # <<>>
    THEN [res |-> "Ready(Some)", msg |-> Some(Head(ch.queue)),
          ch |-> [ch EXCEPT !.queue = Tail(@)]]
    ELSE IF ch.senders = 0 THEN [res |-> "Ready(None)", msg |-> None, ch |-> ch]
    ELSE [res |-> "Pending", msg |-> None, ch |-> ch]

\* the while loop of EncodeStream::poll_next (lines 139-145); i counts the
\* calls of poll_recv, of which call sp fails spuriously; h is the history
RECURSIVE EncodeStream_loop(_, _, _, _, _)
EncodeStream_loop(es, ch, h, i, sp) ==
    IF es.rx = None THEN [es |-> es, ch |-> ch, h |-> h, err |-> FALSE]
    ELSE LET r == poll_recv(ch, i = sp)
             h1 == [h EXCEPT !.late = IF h.closed THEN @ + 1 ELSE @,
                             !.spurious = IF i = sp THEN @ + 1 ELSE @]
         IN  CASE r.res = "Ready(Some)" ->
                    LET e == Codec_encode(r.msg[1], es.buf)
                        h2 == [h1 EXCEPT !.received = Append(@, r.msg[1])]
                    IN  IF e.err THEN [es |-> es, ch |-> r.ch, h |-> h2, err |-> TRUE]
                        ELSE EncodeStream_loop([es EXCEPT !.buf = e.buf], r.ch, h2, i + 1, sp)
               [] r.res = "Ready(None)" ->
                    EncodeStream_loop([es EXCEPT !.rx = None], r.ch,
                                      [h1 EXCEPT !.closed = TRUE], i + 1, sp)
               [] r.res = "Pending" -> [es |-> es, ch |-> r.ch, h |-> h1, err |-> FALSE]

\* EncodeStream::poll_next looking at rx before buf
EncodeStream_poll_next_rx_first(es, ch, h, sp) ==
    LET l == EncodeStream_loop(es, ch, h, 1, sp)
    IN  IF l.err
        THEN [es |-> l.es, ch |-> l.ch, h |-> l.h, ret |-> "Ready(Some(Err))", item |-> <<>>]
        ELSE IF l.es.rx = None
        THEN [es |-> l.es, ch |-> l.ch, h |-> l.h, ret |-> "Ready(None)", item |-> <<>>]
        ELSE IF l.es.buf # <<>>
        THEN [es |-> [l.es EXCEPT !.buf = <<>>], ch |-> l.ch,
              h |-> [l.h EXCEPT !.yielded = Append(@, l.es.buf)],
              ret |-> "Ready(Some(Ok))", item |-> l.es.buf]
        ELSE [es |-> l.es, ch |-> l.ch, h |-> l.h, ret |-> "Pending", item |-> <<>>]

\* EncodeStream::poll_next
EncodeStream_poll_next(es, ch, h, sp) ==
    LET l == EncodeStream_loop(es, ch, h, 1, sp)
    IN  IF l.err
        THEN [es |-> l.es, ch |-> l.ch, h |-> l.h, ret |-> "Ready(Some(Err))", item |-> <<>>]
        ELSE IF l.es.buf # <<>>
        THEN [es |-> [l.es EXCEPT !.buf = <<>>], ch |-> l.ch,
              h |-> [l.h EXCEPT !.yielded = Append(@, l.es.buf)],
              ret |-> "Ready(Some(Ok))", item |-> l.es.buf]
        ELSE IF l.es.rx = None
        THEN [es |-> l.es, ch |-> l.ch, h |-> l.h, ret |-> "Ready(None)", item |-> <<>>]
        ELSE [es |-> l.es, ch |-> l.ch, h |-> l.h, ret |-> "Pending", item |-> <<>>]

\* S::poll_next of the stream inside a DecodeStream: the next item of its
\* script, and None once the script is over
inner_poll(inn) ==
    IF inn.script = <<>> THEN [res |-> "Ready(None)", item |-> <<>>, inner |-> inn]
    ELSE [res |-> Head(inn.script).res, item |-> Head(inn.script).item,
          inner |-> [inn EXCEPT !.script = Tail(@)]]

\* the while loop of DecodeStream::poll_next (lines 83-90)
RECURSIVE DecodeStream_loop(_, _, _)
DecodeStream_loop(ds, inn, h) ==
    IF ds.stream = None THEN [ds |-> ds, inner |-> inn, h |-> h, err |-> FALSE]
    ELSE LET r == inner_poll(inn)
             h1 == [h EXCEPT !.late = IF h.closed THEN @ + 1 ELSE @]
         IN  CASE r.res = "Ready(Some(Ok))" ->
                    DecodeStream_loop([ds EXCEPT !.buf = @ \o r.item], r.inner,
                                      [h1 EXCEPT !.received = @ \o r.item])
               [] r.res = "Ready(Some(Err))" ->
                    [ds |-> ds, inner |-> r.inner, h |-> h1, err |-> TRUE]
               [] r.res = "Ready(None)" ->
                    DecodeStream_loop([ds EXCEPT !.stream = None], r.inner,
                                      [h1 EXCEPT !.closed = TRUE])
               [] r.res = "Pending" -> [ds |-> ds, inner |-> r.inner, h |-> h1, err |-> FALSE]

\* DecodeStream::poll_next ending the stream before it looks at buf
DecodeStream_poll_next_ends_first(ds, inn, h) ==
    LET l == DecodeStream_loop(ds, inn, h)
        d == Codec_decode(l.ds.buf)
    IN  IF l.err
        THEN [ds |-> l.ds, inner |-> l.inner, h |-> l.h,
              ret |-> "Ready(Some(Err(Stream)))", item |-> None]
        ELSE IF l.ds.stream = None
        THEN [ds |-> l.ds, inner |-> l.inner, h |-> l.h, ret |-> "Ready(None)", item |-> None]
        ELSE IF d.err
        THEN [ds |-> l.ds, inner |-> l.inner, h |-> l.h,
              ret |-> "Ready(Some(Err(Protocol)))", item |-> None]
        ELSE IF d.msg # None
        THEN [ds |-> [l.ds EXCEPT !.buf = d.buf], inner |-> l.inner,
              h |-> [l.h EXCEPT !.yielded = Append(@, d.msg[1])],
              ret |-> "Ready(Some(Ok))", item |-> d.msg]
        ELSE [ds |-> l.ds, inner |-> l.inner, h |-> l.h, ret |-> "Pending", item |-> None]

\* DecodeStream::poll_next
DecodeStream_poll_next(ds, inn, h) ==
    LET l == DecodeStream_loop(ds, inn, h)
        d == Codec_decode(l.ds.buf)
    IN  IF l.err
        THEN [ds |-> l.ds, inner |-> l.inner, h |-> l.h,
              ret |-> "Ready(Some(Err(Stream)))", item |-> None]
        ELSE IF d.err
        THEN [ds |-> l.ds, inner |-> l.inner, h |-> l.h,
              ret |-> "Ready(Some(Err(Protocol)))", item |-> None]
        ELSE IF d.msg # None
        THEN [ds |-> [l.ds EXCEPT !.buf = d.buf], inner |-> l.inner,
              h |-> [l.h EXCEPT !.yielded = Append(@, d.msg[1])],
              ret |-> "Ready(Some(Ok))", item |-> d.msg]
        ELSE IF l.ds.stream = None
        THEN [ds |-> l.ds, inner |-> l.inner, h |-> l.h, ret |-> "Ready(None)", item |-> None]
        ELSE [ds |-> l.ds, inner |-> l.inner, h |-> l.h, ret |-> "Pending", item |-> None]

\* the history of a stream: messages sent into the channel; what the stream
\* took in (messages, or bytes for a DecodeStream) and what it yielded; the
\* source (channel or inner stream) has reported its end; polls of the
\* source after that; spurious failures of poll_recv
hist_new == [sent |-> 0, received |-> <<>>, yielded |-> <<>>, closed |-> FALSE,
             late |-> 0, spurious |-> 0]

\* no websocket on the connection
NoStreams ==
    /\ encode_stream = EncodeStream_new
    /\ channel = channel_new
    /\ decode_stream = DecodeStream_new
    /\ inner = [script |-> <<>>]
    /\ hist = hist_new

-----------------------------------------------------------------------------
(* Inputs *)

WriteBufs == {Flat(<<>>), List(<<>>, <<>>)}

Date0 == <<"T", "0">>
Date1 == <<"T", "1">>
Dates == {Date0, Date1}

Bodies == {BodyNone, BodyStream} \cup {BodyBytes(n) : n \in 0..MaxLen}

\* body chunks: empty, shorter and longer than MaxLen, bytes that look like
\* framing, and lengths that take a hex letter and two hex digits
Chunks == {<<>>, <<"a">>, <<"\r", "\n">>, Rep(MaxLen, "0"), Rep(10, "b"), Rep(26, "c")}

\* the bytes the write buffer gained between wb0 and wb1
Written(wb0, wb1) == SubSeq(Content(wb1), Len(Content(wb0)) + 1, Len(Content(wb1)))

Sizes == {SizeNone, SizeStream, Sized(12)}

\* the (version, status) pairs given to encode_head
StatusLines ==
    { <<HTTP_11, 200>>, <<HTTP_10, 200>>, <<HTTP_2, 404>>, <<HTTP_11, 101>>,
      <<HTTP_11, 204>>, <<HTTP_11, 100>>, <<HTTP_10, 199>>, <<HTTP_2, 100>>,
      <<HTTP_2, 299>> }

\* one item of HeaderMap::drain(): the name is None for the second and later
\* values of a header
H(name, value) == [name |-> Some(name), value |-> value]
NoName(value) == [name |-> None, value |-> value]

XA == H(<<"x", "-", "a">>, <<"1">>)
XB == H(<<"x", "-", "b">>, <<"d", "a", "t", "e", ":", " ", "2">>)
CallerDate == H(DATE, <<"M", "o", "n">>)

ConnectionValues ==
    { <<"k", "e", "e", "p", "-", "a", "l", "i", "v", "e", ",", " ", "u", "p", "g", "r", "a", "d", "e">>,
      <<"U", "p", "g", "r", "a", "d", "e", ",", "f", "o", "o">>,
      <<"c", "l", "o", "s", "e", " ", ",", " ", "K", "e", "e", "p", "-", "A", "l", "i", "v", "e">>,
      <<"f", "o", "o">>,
      <<"<FF>">> }

\* the header collections given to encode_head, as drain() yields them
HeaderMaps ==
    { <<>>, <<XB, CallerDate, XA>>,
      <<H(CONTENT_LENGTH, <<"5">>)>>,
      <<XA, H(TRANSFER_ENCODING, <<"c", "h", "u", "n", "k", "e", "d">>)>>,
      <<XA, NoName(<<"2">>)>>,
      <<H(CONNECTION, <<"c", "l", "o", "s", "e">>), CallerDate>>,
      <<CallerDate, H(CONNECTION, <<"<FF>">>)>>,
      <<XA, H(CONNECTION, <<"f", "o", "o">>), XB>> }
    \cup { <<H(CONNECTION, v)>> : v \in ConnectionValues }

PartsSet == { [version |-> vs[1], status |-> vs[2], headers |-> hs] :
                vs \in StatusLines, hs \in HeaderMaps }

\* the builds to tell apart on an input: with and without debug assertions
\* where the call evaluates one, one build otherwise
Builds(hs) ==
    IF \E i \in 1..Len(hs) : hs[i].name \in {Some(CONTENT_LENGTH), Some(TRANSFER_ENCODING)}
    THEN BOOLEAN ELSE {FALSE}

NoArg == [none |-> TRUE]
PreState == [ctype |-> ctype, state |-> state, header_cache |-> header_cache,
             date |-> date, enc |-> enc, buf |-> buf]

-----------------------------------------------------------------------------
(* The transfer-encoding state machine on its own: one body after another   *)

CtxVars == <<ctype, state, header_cache, date>>

InitBody ==
    /\ NoStreams
    /\ ctype \in ConnectionType
    /\ state = ContextState_new
    /\ header_cache = None
    /\ date = Date0
    /\ buf \in WriteBufs
    /\ body \in Bodies
    /\ enc = encoder(body, ctype)
    /\ arg = body
    /\ bmark = 0
    /\ eofs = 0
    /\ op = "encoder"
    /\ pre = NoArg
    /\ out = <<>>
    /\ ret = "None"
    /\ offered = <<>>
    /\ calls = 0

\* body.encoder(ctx.ctype()): the encoder of the next response body
Encoder(b) ==
    /\ calls < MaxCalls
    /\ enc' = encoder(b, ctype)
    /\ body' = b
    /\ bmark' = Len(Content(buf))
    /\ eofs' = 0
    /\ op' = "encoder"
    /\ arg' = b
    /\ pre' = PreState
    /\ out' = <<>>
    /\ ret' = "None"
    /\ offered' = <<>>
    /\ calls' = calls + 1
    /\ UNCHANGED <<CtxVars, buf, WsVars>>

Encode(msg) ==
    /\ calls < MaxCalls
    /\ LET r == encode(enc, msg, buf)
       IN  /\ enc' = r.enc
           /\ buf' = r.buf
           /\ ret' = r.ret
           /\ out' = Written(buf, r.buf)
    /\ op' = "encode"
    /\ arg' = msg
    /\ pre' = PreState
    /\ offered' = Append(offered, msg)
    /\ calls' = calls + 1
    /\ UNCHANGED <<CtxVars, body, bmark, eofs, WsVars>>

EncodeEof ==
    /\ calls < MaxCalls
    /\ LET r == encode_eof(enc, buf)
       IN  /\ enc' = r.enc
           /\ buf' = r.buf
           /\ ret' = r.ret
           /\ out' = Written(buf, r.buf)
    /\ op' = "encode_eof"
    /\ arg' = NoArg
    /\ pre' = PreState
    /\ eofs' = eofs + 1
    /\ calls' = calls + 1
    /\ UNCHANGED <<CtxVars, body, bmark, offered, WsVars>>

NextBody ==
    \/ \E b \in Bodies : Encoder(b)
    \/ \E msg \in Chunks : Encode(msg)
    \/ EncodeEof

SpecBody == InitBody /\ [][NextBody]_vars

-----------------------------------------------------------------------------
(* The connection: Context and the head encoder *)

Ctx == [state |-> state, ctype |-> ctype, header_cache |-> header_cache, date |-> date]

\* bytes held by the write buffer, its scratch BytesMut included
Pending(wb) == Len(Content(wb)) + (IF wb.mode = "List" THEN Len(wb.buf) ELSE 0)

\* the record of the last call has been dropped
Idle == pre = NoArg

\* the connection can go on: nothing panicked, and the write buffer is below
\* the mark
Live == ret # "Panic" /\ Pending(buf) <= MaxPending

Ready == Idle /\ Live

BodyVars == <<enc, body, bmark, offered, eofs, calls>>

\* Context::new, and an empty write buffer of either mode
Init ==
    /\ NoStreams
    /\ ctype = Init_
    /\ state = ContextState_new
    /\ header_cache = None
    /\ date = Date0
    /\ buf \in WriteBufs
    /\ enc = eof
    /\ body = BodyNone
    /\ bmark = 0
    /\ offered = <<>>
    /\ eofs = 0
    /\ calls = 0
    /\ op = "new"
    /\ arg = NoArg
    /\ pre = NoArg
    /\ out = <<>>
    /\ ret = "()"

\* a Context method that writes nothing
Called(name, a) ==
    /\ op' = name
    /\ arg' = a
    /\ pre' = PreState
    /\ out' = <<>>
    /\ ret' = "()"

\* Context::reset
Reset ==
    /\ Ready
    /\ LET c == reset(Ctx)
       IN  /\ ctype' = c.ctype
           /\ state' = c.state
           /\ header_cache' = c.header_cache
    /\ Called("reset", NoArg)
    /\ UNCHANGED <<date, buf, BodyVars, WsVars>>

\* Context::set_expect_header
SetExpectHeader ==
    /\ Ready
    /\ state' = insert(state, EXPECT)
    /\ Called("set_expect_header", NoArg)
    /\ UNCHANGED <<ctype, header_cache, date, buf, BodyVars, WsVars>>

\* Context::set_connect_method
SetConnectMethod ==
    /\ Ready
    /\ state' = insert(state, CONNECT)
    /\ Called("set_connect_method", NoArg)
    /\ UNCHANGED <<ctype, header_cache, date, buf, BodyVars, WsVars>>

\* Context::set_force_close
SetForceClose ==
    /\ Ready
    /\ state' = insert(state, FORCE_CLOSE)
    /\ Called("set_force_close", NoArg)
    /\ UNCHANGED <<ctype, header_cache, date, buf, BodyVars, WsVars>>

\* Context::set_ctype, called from outside the encoder
SetCtype(ct) ==
    /\ Ready
    /\ ctype' = ct
    /\ Called("set_ctype", [ctype |-> ct])
    /\ UNCHANGED <<state, header_cache, date, buf, BodyVars, WsVars>>

\* Context::encode_continue
EncodeContinue(dbg) ==
    /\ Ready
    /\ LET r == encode_continue(state, dbg, buf)
       IN  /\ buf' = r.buf
           /\ ret' = r.ret
           /\ out' = Written(buf, r.buf)
    /\ op' = "encode_continue"
    /\ arg' = NoArg
    /\ pre' = PreState
    /\ UNCHANGED <<ctype, state, header_cache, date, BodyVars, WsVars>>

\* Context::encode_head
EncodeHead(parts, size, dbg) ==
    /\ Ready
    /\ LET r == encode_head(Ctx, parts, size, dbg, buf)
       IN  /\ buf' = r.buf
           /\ ret' = r.ret
           /\ out' = r.out
           /\ ctype' = r.ctx.ctype
           /\ state' = r.ctx.state
           /\ header_cache' = r.ctx.header_cache
    /\ op' = "encode_head"
    /\ arg' = [parts |-> parts, size |-> size]
    /\ pre' = PreState
    /\ UNCHANGED <<date, BodyVars, WsVars>>

\* the background task that refreshes the shared Date
DateUpdate ==
    /\ Ready
    /\ date' \in Dates \ {date}
    /\ UNCHANGED <<ctype, state, header_cache, buf, op, arg, pre, out, ret, BodyVars, WsVars>>

\* the caller goes on: the record of the last call is dropped
Return ==
    /\ ~Idle
    /\ Live
    /\ op' = "idle"
    /\ arg' = NoArg
    /\ pre' = NoArg
    /\ out' = <<>>
    /\ ret' = "()"
    /\ UNCHANGED <<ctype, state, header_cache, date, buf, BodyVars, WsVars>>

\* the transport takes the bytes waiting in the write buffer
Flush ==
    /\ ret # "Panic"
    /\ Content(buf) # <<>>
    /\ buf' = IF buf.mode = "Flat" THEN Flat(<<>>) ELSE List(buf.buf, <<>>)
    /\ op' = "flush"
    /\ arg' = NoArg
    /\ pre' = NoArg
    /\ out' = <<>>
    /\ ret' = "()"
    /\ UNCHANGED <<ctype, state, header_cache, date, BodyVars, WsVars>>

Next ==
    \/ Reset
    \/ SetExpectHeader
    \/ SetConnectMethod
    \/ SetForceClose
    \/ \E ct \in ConnectionType : SetCtype(ct)
    \/ \E dbg \in BOOLEAN : EncodeContinue(dbg)
    \/ \E parts \in PartsSet, size \in Sizes :
            \E dbg \in Builds(parts.headers) : EncodeHead(parts, size, dbg)
    \/ DateUpdate
    \/ Return
    \/ Flush

Spec == Init /\ [][Next]_vars

-----------------------------------------------------------------------------
(* Properties of the transfer-encoding state machine *)

\* the body bytes written since enc was made
Body == SubSeq(Content(buf), bmark + 1, Len(Content(buf)))

Terminator == <<"0", "\r", "\n", "\r", "\n">>

\* one chunk in chunked framing: <uppercase-hex(len)>\r\n<bytes>\r\n
Frame(c) == UpperHex(Len(c)) \o CRLF \o c \o CRLF

RECURSIVE Frames(_)
Frames(cs) == IF cs = <<>> THEN <<>> ELSE Frame(Head(cs)) \o Frames(Tail(cs))

\* the chunks offered before the first empty one
RECURSIVE BeforeEmpty(_)
BeforeEmpty(cs) ==
    IF cs = <<>> \/ Head(cs) = <<>> THEN <<>>
    ELSE <<Head(cs)>> \o BeforeEmpty(Tail(cs))

HexDigits == {Digits[i] : i \in 1..16} \cup {"a", "b", "c", "d", "e", "f"}
HexVal(c) ==
    CASE c = "a" -> 10 [] c = "b" -> 11 [] c = "c" -> 12
      [] c = "d" -> 13 [] c = "e" -> 14 [] c = "f" -> 15
      [] OTHER -> (CHOOSE i \in 1..16 : Digits[i] = c) - 1

HasCRLF(s, i) == i + 1 <= Len(s) /\ s[i] = "\r" /\ s[i + 1] = "\n"

\* the chunk-size line starting at s[i]: hex digits up to CRLF
RECURSIVE ChunkSize(_, _, _, _)
ChunkSize(s, i, n, val) ==
    IF i <= Len(s) /\ s[i] \in HexDigits
    THEN ChunkSize(s, i + 1, n + 1, val * 16 + HexVal(s[i]))
    ELSE [ok |-> n > 0 /\ HasCRLF(s, i), val |-> val, next |-> i + 2]

\* a chunked decoder: the payload of the chunked body s, which must end with
\* the last-chunk and nothing after it
RECURSIVE Dechunk(_, _, _)
Dechunk(s, i, acc) ==
    LET sz == ChunkSize(s, i, 0, 0)
    IN  IF ~sz.ok THEN [ok |-> FALSE, data |-> acc]
        ELSE IF sz.val = 0
        THEN [ok |-> HasCRLF(s, sz.next) /\ sz.next + 1 = Len(s), data |-> acc]
        ELSE IF HasCRLF(s, sz.next + sz.val)
        THEN Dechunk(s, sz.next + sz.val + 2,
                     acc \o SubSeq(s, sz.next, sz.next + sz.val - 1))
        ELSE [ok |-> FALSE, data |-> acc]

\* C1: a Length(n) encoder never lets more than n body bytes through: the
\* body bytes written are n minus remaining, a chunk longer than remaining is
\* cut to remaining bytes, encode returns true exactly when remaining is 0
\* after the call, and at remaining 0 encode writes nothing and returns true.
C1_LengthClamps ==
    enc.kind = "Length" =>
        /\ Len(Body) = body.len - enc.remaining
        /\ Len(Body) <= body.len
        /\ op = "encode" =>
            /\ out = SubSeq(arg, 1, Min(pre.enc.remaining, Len(arg)))
            /\ Len(arg) > pre.enc.remaining => Len(out) = pre.enc.remaining
            /\ (ret = "Ok(true)") <=> (enc.remaining = 0)
            /\ ret \in {"Ok(true)", "Ok(false)"}
            /\ pre.enc.remaining = 0 =>
                    out = <<>> /\ ret = "Ok(true)" /\ enc = pre.enc

\* a chunk longer than remaining was offered to a Length encoder part-way
C1_Witness ==
    /\ op = "encode"
    /\ enc.kind = "Length"
    /\ pre.enc.remaining > 0
    /\ pre.enc.remaining < body.len
    /\ Len(arg) > pre.enc.remaining
    /\ ret = "Ok(true)"

\* C2: encode_eof on a Length encoder is Ok exactly when remaining is 0,
\* that is when exactly n bytes were written, and is the UnexpectedEof error
\* otherwise; either way it writes nothing and leaves the encoder as it was.
C2_LengthEof ==
    (op = "encode_eof" /\ enc.kind = "Length") =>
        /\ (ret = "Ok(())") <=> (pre.enc.remaining = 0)
        /\ (ret = "Ok(())") <=> (Len(Body) = body.len)
        /\ ret # "Ok(())" => ret = "Err(UnexpectedEof)"
        /\ out = <<>>
        /\ buf = pre.buf
        /\ enc = pre.enc

\* encode_eof failed on a Length encoder that was given too few bytes
C2_Witness ==
    /\ op = "encode_eof"
    /\ enc.kind = "Length"
    /\ offered # <<>>
    /\ Len(Body) > 0
    /\ ret = "Err(UnexpectedEof)"

\* C3 as stated: chunks fed to a Chunked encoder and then encode_eof give
\* one frame for every chunk offered, then one terminator, and a chunked
\* decoder recovers the concatenation of all the chunks offered.
C3_EveryChunkFramed ==
    (op = "encode_eof" /\ eofs = 1 /\ enc.kind = "EncodeChunked") =>
        /\ Body = Frames(offered) \o Terminator
        /\ Dechunk(Body, 1, <<>>) = [ok |-> TRUE, data |-> Concat(offered)]

\* C3 amended: the frames are those of the chunks offered before the first
\* empty chunk; the empty chunk writes the terminator and what is offered
\* after it is dropped.
C3_ChunkedRoundTrip ==
    (op = "encode_eof" /\ eofs = 1 /\ enc.kind = "EncodeChunked") =>
        /\ Body = Frames(BeforeEmpty(offered)) \o Terminator
        /\ Dechunk(Body, 1, <<>>) =
                [ok |-> TRUE, data |-> Concat(BeforeEmpty(offered))]

\* two chunks, one of them with a two-digit hex length, then encode_eof
C3_Witness ==
    /\ op = "encode_eof"
    /\ eofs = 1
    /\ enc.kind = "EncodeChunked"
    /\ Len(offered) = 2
    /\ BeforeEmpty(offered) = offered
    /\ \E i \in 1..2 : Len(offered[i]) > 15

\* C4: the chunked terminator is written at most once: only a call on an
\* unfinished Chunked encoder (an empty chunk, or encode_eof) writes it, that
\* call sets finished, and on a finished encoder encode writes nothing and
\* returns true and encode_eof writes nothing and returns Ok; encode_eof on
\* a Length encoder at remaining 0 returns Ok and writes nothing.
C4_TerminatorOnce ==
    /\ (op \in {"encode", "encode_eof"} /\ enc.kind = "EncodeChunked") =>
        /\ pre.enc.eof =>
            /\ out = <<>>
            /\ buf = pre.buf
            /\ enc = pre.enc
            /\ ret = IF op = "encode" THEN "Ok(true)" ELSE "Ok(())"
        /\ (~pre.enc.eof /\ (op = "encode_eof" \/ arg = <<>>)) =>
            /\ out = Terminator
            /\ enc.eof
            /\ ret = IF op = "encode" THEN "Ok(true)" ELSE "Ok(())"
        /\ (~pre.enc.eof /\ op = "encode" /\ arg # <<>>) =>
            /\ out = Frame(arg)
            /\ ~enc.eof
        /\ (enc.eof /\ eofs = 0) => Body = Frames(BeforeEmpty(offered)) \o Terminator
        /\ ~enc.eof => Body = Frames(offered)
    /\ (op = "encode_eof" /\ enc.kind = "Length" /\ pre.enc.remaining = 0) =>
        /\ ret = "Ok(())"
        /\ out = <<>>
        /\ enc = pre.enc

\* encode_eof called again on a Chunked encoder that was already finished
C4_Witness ==
    /\ op = "encode_eof"
    /\ enc.kind = "EncodeChunked"
    /\ pre.enc.eof
    /\ eofs = 2
    /\ offered # <<>>

-----------------------------------------------------------------------------
(* Properties of the head encoder *)

\* the places of the CRLFs of a byte string
Breaks(bs) == {i \in 1..(Len(bs) - 1) : bs[i] = "\r" /\ bs[i + 1] = "\n"}

\* the lines of a byte string, split at each CRLF
Lines(bs) ==
    LET br == Breaks(bs)
        n == Cardinality(br)
        at(k) == IF k = 0 THEN -1
                 ELSE IF k = n + 1 THEN Len(bs) + 1
                 ELSE CHOOSE p \in br : Cardinality({q \in br : q < p}) = k - 1
    IN  [k \in 1..(n + 1) |-> SubSeq(bs, at(k - 1) + 2, at(k) - 1)]

\* the header lines of a head: what lies between the status line and the
\* blank line that ends it
HeaderLines(head) ==
    LET ls == Lines(head) IN SubSeq(ls, 2, Len(ls) - 2)

\* the name of a header line: the bytes before its first colon
LineName(line) ==
    LET colons == {i \in 1..Len(line) : line[i] = ":"}
    IN  IF colons = {} THEN line
        ELSE SubSeq(line, 1, (CHOOSE i \in colons : \A j \in colons : i <= j) - 1)

\* the header lines of a head that carry the given name
Named(head, name) == SelectSeq(HeaderLines(head), LAMBDA l : LineName(l) = name)

\* the caller's headers of the given name in the last encode_head
Caller(name) == SelectSeq(arg.parts.headers, LAMBDA h : h.name = Some(name))

HeadDone == op = "encode_head" /\ ret = "Ok(())"

C6_NoLengthHeaderOnConnect ==
    (HeadDone /\ is_connect_method(pre.state) /\ is_success(arg.parts.status)) =>
        /\ Named(out, CONTENT_LENGTH) = <<>>
        /\ Named(out, TRANSFER_ENCODING) = <<>>

\* C7: on a 1xx status other than 101 encode_head returns the status-code
\* error and changes nothing: no byte written, the write buffer, the
\* disposition, the flags and header_cache as before the call.
C7_InformationalRejected ==
    (op = "encode_head" /\ is_informational(arg.parts.status)
                        /\ arg.parts.status # SWITCHING_PROTOCOLS) =>
        /\ ret = "Err(StatusCode)"
        /\ out = <<>>
        /\ buf = pre.buf
        /\ ctype = pre.ctype
        /\ state = pre.state
        /\ header_cache = pre.header_cache

\* a 1xx head refused on a CONNECT request, on a connection that has already
\* sent a response
C7_Witness ==
    /\ op = "encode_head"
    /\ arg.parts.status = 100
    /\ arg.parts.version = HTTP_2
    /\ arg.parts.headers # <<>>
    /\ is_connect_method(pre.state)
    /\ pre.header_cache # None
    /\ pre.ctype = Upgrade
    /\ ret = "Err(StatusCode)"

ConnectionNames ==
    << <<Close, <<"c", "l", "o", "s", "e">> >>,
       <<KeepAlive, <<"k", "e", "e", "p", "-", "a", "l", "i", "v", "e">> >>,
       <<Upgrade, <<"u", "p", "g", "r", "a", "d", "e">> >> >>

\* the dispositions a token names
Names(token) ==
    {ConnectionNames[k][1] : k \in {j \in 1..3 :
        eq_ignore_ascii_case(trim(token), ConnectionNames[j][2])}}

\* the disposition named by the last token of a Connection value that names
\* one, and ct0 if none does
LastNamed(value, ct0) ==
    LET tokens == split(value)
        hits == {i \in 1..Len(tokens) : Names(tokens[i]) # {}}
    IN  IF hits = {} THEN ct0
        ELSE CHOOSE ct \in Names(tokens[CHOOSE i \in hits : \A j \in hits : j <= i]) : TRUE

\* C8: without force-close, a successful encode_head leaves the disposition
\* named by the last matching token of the Connection header, and the
\* disposition it found if no token matches or there is no such header.
C8_LastTokenWins ==
    (HeadDone /\ ~is_force_close(pre.state)) =>
        /\ Len(Caller(CONNECTION)) <= 1
        /\ ctype = IF Caller(CONNECTION) = <<>> THEN pre.ctype
                   ELSE LastNamed(Caller(CONNECTION)[1].value, pre.ctype)

\* "keep-alive, upgrade" on a connection that was Close
C8_Witness ==
    /\ HeadDone
    /\ ~is_force_close(pre.state)
    /\ pre.ctype = Close
    /\ Caller(CONNECTION) # <<>>
    /\ Len(split(Caller(CONNECTION)[1].value)) = 2
    /\ ctype = Upgrade

\* C9: with force-close set, the head of a successful encode_head has one
\* connection line, connection: close, and nothing of the caller's
\* Connection header.
C9_ForceCloseLine ==
    (HeadDone /\ is_force_close(pre.state)) =>
        /\ Named(out, CONNECTION) = << CONNECTION \o <<":", " ">> \o <<"c", "l", "o", "s", "e">> >>
        /\ \A i \in 1..Len(Caller(CONNECTION)) :
              Caller(CONNECTION)[i].value # <<"c", "l", "o", "s", "e">> =>
                 \A j \in 1..Len(HeaderLines(out)) :
                    HeaderLines(out)[j] # CONNECTION \o <<":", " ">> \o Caller(CONNECTION)[i].value

\* force-close with a caller's Connection: keep-alive, upgrade
C9_Witness ==
    /\ HeadDone
    /\ is_force_close(pre.state)
    /\ Caller(CONNECTION) # <<>>
    /\ Caller(CONNECTION)[1].value # <<"c", "l", "o", "s", "e">>
    /\ to_str_ok(Caller(CONNECTION)[1].value)

\* C10: the head of a successful encode_head has one date line: the caller's
\* Date header as given, or else date: <the value the Date cache held at the
\* call>.
C10_OneDateLine ==
    HeadDone =>
        /\ Len(Caller(DATE)) <= 1
        /\ Named(out, DATE) =
             << DATE \o <<":", " ">> \o
                  (IF Caller(DATE) = <<>> THEN pre.date ELSE Caller(DATE)[1].value) >>

\* a head with the synthesized date line, written after the Date cache was
\* refreshed
C10_Witness ==
    /\ HeadDone
    /\ Caller(DATE) = <<>>
    /\ pre.date = Date1
    /\ Len(arg.parts.headers) > 0
    /\ Named(out, DATE) = << DATE \o <<":", " ">> \o Date1 >>


\* the three per-request flags
Flags == {EXPECT, CONNECT, FORCE_CLOSE}

\* C11: reset() leaves the disposition KeepAlive and the three flags false,
\* whatever the disposition and the flags were, and leaves header_cache as
\* it was.
C11_ResetClears ==
    op = "reset" =>
        /\ ctype = KeepAlive
        /\ ~is_expect_header(state)
        /\ ~is_connect_method(state)
        /\ ~is_force_close(state)
        /\ header_cache = pre.header_cache

\* reset() on an upgraded connection with the three flags set and a header
\* map in the cache
C11_Witness ==
    /\ op = "reset"
    /\ pre.ctype = Upgrade
    /\ \A f \in Flags : contains(pre.state, f)
    /\ pre.header_cache # None

\* the setter of each flag
SetterOf ==
    [set_expect_header |-> EXPECT, set_connect_method |-> CONNECT,
     set_force_close |-> FORCE_CLOSE]

\* C12: a call other than reset() clears no flag: encode_head (whatever it
\* returns), encode_continue and set_ctype leave the three flags as they
\* were; a setter sets its flag, leaves the other two and the disposition
\* as they were, and changes nothing when its flag is already set.
C12_FlagsStay ==
    /\ op \in {"encode_head", "encode_continue", "set_ctype"} => state = pre.state
    /\ op \in DOMAIN SetterOf =>
        /\ contains(state, SetterOf[op])
        /\ \A f \in Flags \ {SetterOf[op]} : contains(state, f) <=> contains(pre.state, f)
        /\ ctype = pre.ctype
        /\ header_cache = pre.header_cache
        /\ contains(pre.state, SetterOf[op]) => state = pre.state

\* a setter called again with its flag and another one already set
C12_Witness ==
    /\ op = "set_connect_method"
    /\ contains(pre.state, CONNECT)
    /\ contains(pre.state, FORCE_CLOSE)
    /\ ~contains(pre.state, EXPECT)
    /\ pre.ctype = Close
    /\ pre.header_cache # None

\* C13: once the disposition has left Init, no reset, flag setter,
\* encode_continue or encode_head sets it back to Init: reset leaves it
\* KeepAlive, and an encode_head on a disposition other than Init leaves one
\* of Close, KeepAlive, Upgrade; only a set_ctype(Init) from outside gives
\* Init again.
C13_InitOnlyAtFirst ==
    [][ /\ (ctype # Init_ /\ op' # "set_ctype") => ctype' \in {Close, KeepAlive, Upgrade}
        /\ op' = "reset" => ctype' = KeepAlive
      ]_vars

\* a successful encode_head after a reset, whose Connection header changed
\* the disposition
C13_Witness ==
    /\ HeadDone
    /\ pre.ctype = KeepAlive
    /\ pre.state = ContextState_new
    /\ Caller(CONNECTION) # <<>>
    /\ ctype = Close


-----------------------------------------------------------------------------
(* Properties of the pass-through encoders and of the encoder selection *)

\* C14: an Eof or PlainChunked encoder passes each chunk through as it is:
\* encode writes exactly the chunk and returns true exactly when the chunk
\* is empty, encode_eof returns Ok and writes nothing, and the body bytes
\* written are the concatenation of the chunks offered.
C14_PlainPassThrough ==
    enc.kind \in {"Eof", "PlainChunked"} =>
        /\ op = "encode" =>
            /\ out = arg
            /\ (ret = "Ok(true)") <=> (arg = <<>>)
            /\ ret \in {"Ok(true)", "Ok(false)"}
            /\ enc = pre.enc
        /\ op = "encode_eof" =>
            /\ ret = "Ok(())"
            /\ out = <<>>
            /\ buf = pre.buf
            /\ enc = pre.enc
        /\ Body = Concat(offered)

\* a PlainChunked encoder given a chunk after an empty chunk and an
\* encode_eof
C14_Witness ==
    /\ op = "encode"
    /\ enc.kind = "PlainChunked"
    /\ eofs = 1
    /\ Len(offered) = 2
    /\ offered[1] = <<>>
    /\ Len(arg) > 15
    /\ ret = "Ok(false)"

\* C18: the encoder of a body depends on the kind of body and on the
\* disposition only: Eof for None, Length(len) for Bytes of length len
\* whatever the disposition, and for a Stream PlainChunked under Upgrade and
\* an unfinished Chunked under Init, Close and KeepAlive.
C18_EncoderSelection ==
    op = "encoder" =>
        /\ arg = body
        /\ body.kind = "None" => enc = [kind |-> "Eof", remaining |-> 0, eof |-> FALSE]
        /\ body.kind = "Bytes" =>
                enc = [kind |-> "Length", remaining |-> body.len, eof |-> FALSE]
        /\ (body.kind = "Stream" /\ ctype = Upgrade) =>
                enc = [kind |-> "PlainChunked", remaining |-> 0, eof |-> FALSE]
        /\ (body.kind = "Stream" /\ ctype \in {Init_, Close, KeepAlive}) =>
                enc = [kind |-> "EncodeChunked", remaining |-> 0, eof |-> FALSE]

\* the encoder of a Stream body on an upgraded connection, made after a
\* Chunked encoder was finished
C18_Witness ==
    /\ op = "encoder"
    /\ body = BodyStream
    /\ ctype = Upgrade
    /\ enc.kind = "PlainChunked"
    /\ pre # NoArg
    /\ pre.enc.kind = "Length"


-----------------------------------------------------------------------------
(* Properties of the head as a whole *)

\* C15 as stated: when drain() yields an item without a name, encode_head
\* returns an error to its caller.
C15_NoNameIsErr ==
    (op = "encode_head"
        /\ \E i \in 1..Len(arg.parts.headers) : arg.parts.headers[i].name = None) =>
        ret \in {"Err(StatusCode)", "Err(HeaderValue)", "Err(HeaderName)"}

\* C16 as stated: an encode_head that fails on a Connection value that is
\* not text, after it wrote the status line, leaves the write buffer, the
\* disposition and header_cache as they were before the call.
C16_FailedHeadRewound ==
    (op = "encode_head" /\ ret = "Err(HeaderValue)") =>
        /\ buf = pre.buf
        /\ ctype = pre.ctype
        /\ header_cache = pre.header_cache

\* a status code as three decimal digits
ThreeDigits(n) ==
    <<Digits[(n \div 100) + 1], Digits[((n \div 10) % 10) + 1], Digits[(n % 10) + 1]>>

\* the status line by the general rule: token, code, reason
StatusLine(version, status) ==
    (IF version = HTTP_10 THEN <<"H", "T", "T", "P", "/", "1", ".", "0", " ">>
                          ELSE <<"H", "T", "T", "P", "/", "1", ".", "1", " ">>)
    \o ThreeDigits(status) \o <<" ">>
    \o (IF canonical_reason(status) = None THEN <<"<", "n", "o", "n", "e", ">">>
        ELSE canonical_reason(status)[1])
    \o CRLF

\* C17: a head starts with the status line <token><3-digit code> <reason>
\* CRLF, the token HTTP/1.0 for version 1.0 and HTTP/1.1 for any other
\* version, the reason the canonical phrase or <none>; for HTTP/1.1 and 200
\* that is exactly HTTP/1.1 200 OK CRLF.
C17_StatusLine ==
    (op = "encode_head" /\ ret # "Err(StatusCode)") =>
        /\ SubSeq(out, 1, Len(StatusLine(arg.parts.version, arg.parts.status)))
                = StatusLine(arg.parts.version, arg.parts.status)
        /\ (arg.parts.version = HTTP_11 /\ arg.parts.status = OK) =>
                /\ StatusLine(HTTP_11, OK) = <<"H", "T", "T", "P", "/", "1", ".", "1", " ", "2", "0", "0", " ", "O", "K", "\r", "\n">>
                /\ Lines(out)[1] = <<"H", "T", "T", "P", "/", "1", ".", "1", " ", "2", "0", "0", " ", "O", "K">>

\* the head of a response of another version and a status without a
\* canonical reason
C17_Witness ==
    /\ HeadDone
    /\ arg.parts.version = HTTP_2
    /\ arg.parts.status = 299
    /\ Lines(out)[1] = <<"H", "T", "T", "P", "/", "1", ".", "1", " ", "2", "9", "9", " ", "<", "n", "o", "n", "e", ">">>

\* one header line
HeaderLine(h) == h.name[1] \o <<":", " ">> \o h.value \o CRLF

\* the caller's headers that reach the head
Kept(hs, fc) == SelectSeq(hs, LAMBDA h : ~(fc /\ h.name = Some(CONNECTION)))

\* the synthesized length line for a size hint
LengthLine(size) ==
    CASE size.kind = "None" -> <<>>
      [] size.kind = "Stream" -> <<"t", "r", "a", "n", "s", "f", "e", "r", "-", "e", "n", "c", "o", "d", "i", "n", "g", ":", " ", "c", "h", "u", "n", "k", "e", "d", "\r", "\n">>
      [] size.kind = "Sized" -> <<"c", "o", "n", "t", "e", "n", "t", "-", "l", "e", "n", "g", "t", "h", ":", " ">> \o Itoa(size.size) \o CRLF

\* C19: the head of a successful encode_head is, in this order: the status
\* line, the caller's headers in drain order without a Connection header
\* dropped under force-close, connection: close under force-close, the
\* synthesized length line if any, the synthesized date line if any, and one
\* blank line, which ends the head and is the only one.
C19_HeadOrder ==
    HeadDone =>
        LET fc == is_force_close(pre.state)
            kept == Kept(arg.parts.headers, fc)
            ls == Lines(out)
        IN  /\ \E L \in {<<>>, LengthLine(arg.size)},
                  D \in {<<>>, DATE \o <<":", " ">> \o pre.date \o CRLF} :
                    out = StatusLine(arg.parts.version, arg.parts.status)
                          \o Concat([i \in 1..Len(kept) |-> HeaderLine(kept[i])])
                          \o (IF fc THEN <<"c", "o", "n", "n", "e", "c", "t", "i", "o", "n", ":", " ", "c", "l", "o", "s", "e", "\r", "\n">> ELSE <<>>)
                          \o L \o D \o CRLF
            /\ Len(ls) >= 3
            /\ \A i \in 1..Len(ls) : (ls[i] = <<>>) <=> (i >= Len(ls) - 1)

\* a head with every part: two caller headers around a dropped Connection
\* header, connection: close, content-length and date
C19_Witness ==
    /\ HeadDone
    /\ is_force_close(pre.state)
    /\ Len(arg.parts.headers) = 3
    /\ Len(Kept(arg.parts.headers, TRUE)) = 2
    /\ arg.size = Sized(12)
    /\ Len(Named(out, CONTENT_LENGTH)) = 1
    /\ Len(Named(out, DATE)) = 1
    /\ Len(HeaderLines(out)) = 5

\* C20 as stated: a call gives the same return value, context, encoder and
\* buffer content on a List buffer as on a Flat buffer with the same content,
\* and what the buffer held before the call is a prefix of what it holds
\* after.
C20_ModesAgree ==
    /\ op = "encode_head" =>
            \E dbg \in Builds(arg.parts.headers) :
                LET c == [state |-> pre.state, ctype |-> pre.ctype,
                          header_cache |-> pre.header_cache, date |-> pre.date]
                    a == encode_head(c, arg.parts, arg.size, dbg, pre.buf)
                    f == encode_head(c, arg.parts, arg.size, dbg, Flat(Content(pre.buf)))
                IN  /\ a.buf = buf
                    /\ a.ret = ret
                    /\ f.ret = ret
                    /\ f.ctx = Ctx
                    /\ Content(f.buf) = Content(buf)
    /\ op = "encode_continue" =>
            \E dbg \in BOOLEAN :
                LET a == encode_continue(pre.state, dbg, pre.buf)
                    f == encode_continue(pre.state, dbg, Flat(Content(pre.buf)))
                IN  /\ a.buf = buf
                    /\ a.ret = ret
                    /\ f.ret = ret
                    /\ Content(f.buf) = Content(buf)
    /\ op = "encode" =>
            LET f == encode(pre.enc, arg, Flat(Content(pre.buf)))
            IN  f.ret = ret /\ f.enc = enc /\ Content(f.buf) = Content(buf)
    /\ op = "encode_eof" =>
            LET f == encode_eof(pre.enc, Flat(Content(pre.buf)))
            IN  f.ret = ret /\ f.enc = enc /\ Content(f.buf) = Content(buf)
    /\ op \in {"encode_head", "encode_continue", "encode", "encode_eof"} =>
            SubSeq(Content(buf), 1, Len(Content(pre.buf))) = Content(pre.buf)


-----------------------------------------------------------------------------
(* The head and the body that follows it *)

\* C21 as stated: when a successful encode_head with the size hint Stream
\* wrote the synthesized transfer-encoding: chunked line, the encoder that
\* body.encoder(ctx.ctype()) then gives a Stream body is Chunked.
C21_FramingAgrees ==
    (HeadDone /\ arg.size = SizeStream
              /\ Len(Named(out, TRANSFER_ENCODING)) > Len(Caller(TRANSFER_ENCODING))) =>
        encoder(BodyStream, ctype).kind = "EncodeChunked"

\* C22: under force-close encode_head leaves the disposition as it found
\* it, whatever Connection header the caller gave and whatever it returns;
\* so a successful head after reset() and set_force_close() leaves KeepAlive
\* although it wrote connection: close.
C22_ForceCloseKeepsCtype ==
    (op = "encode_head" /\ is_force_close(pre.state)) =>
        /\ ctype = pre.ctype
        /\ (ret = "Ok(())" /\ pre.ctype = KeepAlive) =>
            /\ ctype = KeepAlive
            /\ Len(Named(out, CONNECTION)) = 1

\* after reset() and set_force_close(): a head whose caller asked for an
\* upgrade
C22_Witness ==
    /\ HeadDone
    /\ pre.state = FORCE_CLOSE
    /\ pre.ctype = KeepAlive
    /\ Caller(CONNECTION) # <<>>
    /\ LastNamed(Caller(CONNECTION)[1].value, KeepAlive) = Upgrade
    /\ ctype = KeepAlive
    /\ Len(Named(out, CONNECTION)) = 1


-----------------------------------------------------------------------------
(* The websocket streams on their own *)

\* the HTTP/1 variables as Context::new and an empty write buffer leave them
H1Vars == <<ctype, state, header_cache, date, buf, enc, body, bmark, offered, eofs, calls>>

H1Idle ==
    /\ ctype = Init_
    /\ state = ContextState_new
    /\ header_cache = None
    /\ date = Date0
    /\ buf = Flat(<<>>)
    /\ enc = eof
    /\ body = BodyNone
    /\ bmark = 0
    /\ offered = <<>>
    /\ eofs = 0
    /\ calls = 0

\* the messages given to a Sender: two the codec encodes, one it refuses
Messages == {"a", "b", "!"}

\* EncodeStream::with_capacity
InitEncode ==
    /\ H1Idle
    /\ NoStreams
    /\ op = "with_capacity"
    /\ arg = NoArg
    /\ pre = NoArg
    /\ out = <<>>
    /\ ret = "()"

\* Sender::send
Send(msg) ==
    /\ channel.senders > 0
    /\ hist.sent < MaxSent
    /\ channel' = [channel EXCEPT !.queue = Append(@, msg)]
    /\ hist' = [hist EXCEPT !.sent = @ + 1]
    /\ op' = "send"
    /\ arg' = [msg |-> msg]
    /\ pre' = NoArg
    /\ out' = <<>>
    /\ ret' = "()"
    /\ UNCHANGED <<H1Vars, encode_stream, decode_stream, inner>>

\* the Sender is dropped
DropSender ==
    /\ channel.senders > 0
    /\ channel' = [channel EXCEPT !.senders = @ - 1]
    /\ op' = "drop"
    /\ arg' = NoArg
    /\ pre' = NoArg
    /\ out' = <<>>
    /\ ret' = "()"
    /\ UNCHANGED <<H1Vars, encode_stream, decode_stream, inner, hist>>

\* EncodeStream::poll_next; call sp of poll_recv fails spuriously, none if
\* sp is 0
PollNextEncode(sp) ==
    /\ sp = 0 \/ /\ hist.spurious < MaxSpurious
                  /\ encode_stream.rx # None
                  /\ sp <= Len(channel.queue) + 1
    /\ LET r == EncodeStream_poll_next(encode_stream, channel, hist, sp)
       IN  /\ encode_stream' = r.es
           /\ channel' = r.ch
           /\ hist' = r.h
           /\ ret' = r.ret
           /\ out' = r.item
    /\ op' = "poll_next"
    /\ arg' = NoArg
    /\ pre' = [encode_stream |-> encode_stream, channel |-> channel]
    /\ UNCHANGED <<H1Vars, decode_stream, inner>>

NextEncode ==
    \/ \E msg \in Messages : Send(msg)
    \/ DropSender
    \/ \E sp \in 0..(MaxSent + 1) : PollNextEncode(sp)

\* the consumer of the stream keeps polling it
SpecEncode ==
    InitEncode /\ [][NextEncode]_vars
               /\ WF_vars(\E sp \in 0..(MaxSent + 1) : PollNextEncode(sp))

\* the byte chunks the inner stream gives: half a frame, the other half, two
\* frames at once, a byte that starts no frame
WsChunks == {<<"F">>, <<"a">>, <<"F", "a", "F", "b">>, <<"X">>}

\* what one poll of the inner stream gives before it ends
InnerItems ==
    {[res |-> "Ready(Some(Ok))", item |-> c] : c \in WsChunks}
    \cup {[res |-> "Ready(Some(Err))", item |-> <<>>], [res |-> "Pending", item |-> <<>>]}

Scripts == UNION {[1..n -> InnerItems] : n \in 0..MaxScript}

\* DecodeStream::with_codec on an inner stream
InitDecode ==
    /\ H1Idle
    /\ encode_stream = EncodeStream_new
    /\ channel = channel_new
    /\ decode_stream = DecodeStream_new
    /\ inner \in {[script |-> sc] : sc \in Scripts}
    /\ hist = hist_new
    /\ op = "with_codec"
    /\ arg = NoArg
    /\ pre = NoArg
    /\ out = <<>>
    /\ ret = "()"

\* DecodeStream::poll_next
PollNextDecode ==
    /\ LET r == DecodeStream_poll_next(decode_stream, inner, hist)
       IN  /\ decode_stream' = r.ds
           /\ inner' = r.inner
           /\ hist' = r.h
           /\ ret' = r.ret
           /\ out' = r.item
    /\ op' = "poll_next"
    /\ arg' = NoArg
    /\ pre' = [decode_stream |-> decode_stream, inner |-> inner]
    /\ UNCHANGED <<H1Vars, encode_stream, channel>>

NextDecode == PollNextDecode

SpecDecode == InitDecode /\ [][NextDecode]_vars

\* the frames of the messages the codec encodes, in order
RECURSIVE WsFrames(_)
WsFrames(ms) ==
    IF ms = <<>> THEN <<>>
    ELSE (IF Codec_encode(Head(ms), <<>>).err THEN <<>> ELSE WsFrame(Head(ms)))
         \o WsFrames(Tail(ms))

\* the safety part of C23
C23_Safe ==
    /\ hist.late = 0
    /\ (encode_stream.rx = None) <=> hist.closed
    /\ Concat(hist.yielded) \o encode_stream.buf = WsFrames(hist.received)
    /\ (op = "poll_next" /\ ret = "Ready(None)") =>
        /\ encode_stream.rx = None
        /\ encode_stream.buf = <<>>
        /\ channel.senders = 0
        /\ channel.queue = <<>>
        /\ Len(hist.received) = hist.sent
        /\ Concat(hist.yielded) = WsFrames(hist.received)

\* C23: EncodeStream::poll_next gives Ready(None) only with the channel
\* closed and buf empty, when the bytes of every message received have
\* been yielded in the order received; the channel is not polled after it
\* reported closed; and once every sender is dropped, polling leads to
\* Ready(None).
C23_EncodeStreamEnds ==
    /\ []C23_Safe
    /\ (channel.senders = 0) ~> (op = "poll_next" /\ ret = "Ready(None)")

\* the end of a stream that yielded twice, refused a message and met a
\* spurious Pending
C23_Witness ==
    /\ op = "poll_next"
    /\ ret = "Ready(None)"
    /\ Len(hist.yielded) = 2
    /\ hist.spurious = 1
    /\ \E i \in 1..Len(hist.received) : hist.received[i] = "!"

\* C24: DecodeStream::poll_next does not poll the inner stream after it
\* ended; gives Ready(None) only with the inner stream ended and no
\* complete message in buf; gives Pending only with the inner stream open
\* and no complete message in buf; and after the inner stream ended still
\* yields each message that buf holds.
C24_DecodeStreamEnds ==
    /\ hist.late = 0
    /\ (decode_stream.stream = None) <=> hist.closed
    /\ op = "poll_next" =>
        /\ ret = "Ready(None)" =>
            /\ decode_stream.stream = None
            /\ Codec_decode(decode_stream.buf) =
                    [err |-> FALSE, msg |-> None, buf |-> decode_stream.buf]
        /\ ret = "Pending" =>
            /\ decode_stream.stream # None
            /\ Codec_decode(decode_stream.buf) =
                    [err |-> FALSE, msg |-> None, buf |-> decode_stream.buf]
        /\ (pre.decode_stream.stream = None
                /\ Codec_decode(pre.decode_stream.buf).msg # None) =>
            /\ ret = "Ready(Some(Ok))"
            /\ out = Codec_decode(pre.decode_stream.buf).msg
            /\ decode_stream.buf = Codec_decode(pre.decode_stream.buf).buf

\* the second of two messages that came in one chunk, yielded after the
\* inner stream ended
C24_Witness ==
    /\ op = "poll_next"
    /\ ret = "Ready(Some(Ok))"
    /\ pre.decode_stream.stream = None
    /\ Len(hist.yielded) = 2
    /\ out = Some("b")

=============================================================================
